---------------------------- MODULE Spec2Model ----------------------------
(***************************************************************************)
(* A model of src/utilities/velocyto/run_loompy.py: one shard of the       *)
(* loompy batch job (main), its sample discovery, its partition slice,     *)
(* its size gate and its invoke / upload / cleanup loop.                   *)
(*                                                                         *)
(* Sample names are modelled by natural numbers whose numeric order is the *)
(* lexicographic order of the names they stand for: the prefix "s" of a    *)
(* file s_L1_R1.fastq.gz is 2*s, and the longer capture "s_L1" (what the   *)
(* smartseq2 pattern captures from the same file) is 2*s+1.                *)
(***************************************************************************)
EXTENDS Integers, Sequences, FiniteSets, TLC

\* ------------------------------------------------------------------ bounds
MaxNames == 3       \* distinct sample prefixes in the input bucket
MaxSize == 2        \* largest object size, in bytes
MaxFolders == 2     \* sub-folders under the input prefix
MaxReads == 2       \* read markers R1..R<MaxReads>
MaxParts == 2       \* largest shard count tried (and largest shard index)

Procs == {"p1", "p2"}

\* ------------------------------------------------------- helper arithmetic
Min(a, b) == IF a < b THEN a ELSE b

Max(a, b) == IF a > b THEN a ELSE b

RECURSIVE SumSeq(_)
\* sum(sample_sizes[sample])
SumSeq(s) == IF s = <<>> THEN 0 ELSE Head(s) + SumSeq(Tail(s))

RECURSIVE Sorted(_)
\* sorted(sample_lists): the keys in ascending order
Sorted(S) ==
  IF S = {} THEN <<>>
  ELSE LET m == CHOOSE x \in S : \A y \in S : x <= y
       IN <<m>> \o Sorted(S \ {m})

Range(s) == {s[k] : k \in 1..Len(s)}

\* ------------------------------------------------------------ the slice
\* a slice that starts one position late
SliceSkipsFirst(seq, start, step) ==
  LET n == Len(seq)
      lo == IF start < 0 THEN Max(n + start, 0) ELSE Min(start, n)
      cnt == IF lo + 1 >= n THEN 0 ELSE (n - lo - 1 + step - 1) \div step
  IN IF step > 0 THEN [k \in 1..cnt |-> seq[lo + 1 + (k - 1) * step + 1]]
     ELSE <<>>

\* seq[start::step] of Python for an integer start and a non-zero step
\* (0-based positions; the result is a sequence of elements of seq).
PySlice(seq, start, step) ==
  LET n == Len(seq)
  IN IF step > 0
     THEN LET lo == IF start < 0 THEN Max(n + start, 0) ELSE Min(start, n)
              cnt == IF lo >= n THEN 0 ELSE (n - lo + step - 1) \div step
          IN [k \in 1..cnt |-> seq[lo + (k - 1) * step + 1]]
     ELSE LET hi == IF start < 0
                    THEN (IF n + start < 0 THEN -1 ELSE n + start)
                    ELSE Min(start, n - 1)
              cnt == IF hi < 0 THEN 0 ELSE (hi \div (-step)) + 1
          IN [k \in 1..cnt |-> seq[hi + (k - 1) * step + 1]]

\* ------------------------------------------------------ the object store
\* An object under the input prefix: folder 0 is the prefix itself, its base
\* name is {sample}[_L1]_R{read} followed by .fastq.gz or by another suffix.
Objects ==
  [folder : 0..MaxFolders, sample : 1..MaxNames, lane : BOOLEAN,
   read : 1..MaxReads, fastq : BOOLEAN, size : 1..MaxSize]

KeyOf(o) == <<o.folder, o.sample, o.lane, o.read, o.fastq>>

\* the position of an object's key in the store's key order
KeyRank(o) ==
  (((o.folder * (MaxNames + 1) + o.sample) * 2 + (IF o.lane THEN 0 ELSE 1))
     * (MaxReads + 1) + o.read) * 2 + (IF o.fastq THEN 0 ELSE 1)

RECURSIVE InKeyOrder(_)
InKeyOrder(S) ==
  IF S = {} THEN <<>>
  ELSE LET m == CHOOSE x \in S : \A y \in S : KeyRank(x) <= KeyRank(y)
       IN <<m>> \o InKeyOrder(S \ {m})

\* s3u.get_files / s3u.get_size on the input prefix: the objects under it,
\* either only those directly under it or all of them, in key order.
ListPrefix(store, recursive) ==
  InKeyOrder({o \in store : recursive \/ o.folder = 0})

\* s3u.get_folders on the input prefix: its sub-folders
GetFolders(store) == Sorted({o.folder : o \in store} \ {0})

\* fn.endswith("fastq.gz")
EndsWithFastq(o) == o.fastq

NoMatch == 0

\* a 10x pattern without its lane marker
Re10xIgnoresLane(o) == IF o.fastq THEN 2 * o.sample ELSE NoMatch

\* sample_re_10x.search(basename).group(1), or NoMatch
sample_re_10x(o) == IF o.fastq /\ o.lane THEN 2 * o.sample ELSE NoMatch

\* sample_re_smartseq2.search(basename).group(1), or NoMatch
sample_re_smartseq2(o) ==
  IF o.fastq THEN (IF o.lane THEN 2 * o.sample + 1 ELSE 2 * o.sample)
  ELSE NoMatch


RECURSIVE Repeat(_, _)
Repeat(seq, k) == IF k = 0 THEN <<>> ELSE seq \o Repeat(seq, k - 1)

\* lines 188-203: the candidate (fn, s) pairs. The fallback branch lists
\* s3_input_prefix again, once per sub-folder, not the sub-folder.
SampleFiles(store, recursive) ==
  LET listing == ListPrefix(store, recursive)
      files == SelectSeq(listing, EndsWithFastq)
  IN IF listing # <<>> THEN files
     ELSE Repeat(files, Len(GetFolders(store)))

Technologies == {"10x", "10x_v3", "smartseq2", "dropseq"}

\* '10x' in technology
Has10x(tech) == tech \in {"10x", "10x_v3"}

\* 'smartseq2' in technology
HasSmartseq2(tech) == tech \in {"smartseq2"}

\* lines 209-212: whether either branch assigns the local variable matched
MatchedIsBound(tech) == tech = "10x" \/ tech = "smartseq2"

\* lines 209-212: matched for one file, when one of the branches assigns it
Matched(tech, o) ==
  IF tech = "10x" THEN sample_re_10x(o) ELSE sample_re_smartseq2(o)

RECURSIVE GroupLoop(_, _, _, _)
\* lines 208-215: the grouping loop over sample_files
GroupLoop(files, tech, lists, sizes) ==
  IF files = <<>> THEN [error |-> "none", lists |-> lists, sizes |-> sizes]
  ELSE IF ~MatchedIsBound(tech)
  THEN [error |-> "UnboundLocalError", lists |-> lists, sizes |-> sizes]
  ELSE LET o == Head(files)
           m == Matched(tech, o)
       IN IF m = NoMatch
          THEN GroupLoop(Tail(files), tech, lists, sizes)
          ELSE IF m \in DOMAIN lists
          THEN GroupLoop(Tail(files), tech,
                         [lists EXCEPT ![m] = Append(@, KeyOf(o))],
                         [sizes EXCEPT ![m] = Append(@, o.size)])
          ELSE GroupLoop(Tail(files), tech,
                         lists @@ (m :> <<KeyOf(o)>>),
                         sizes @@ (m :> <<o.size>>))

\* lines 188-215: sample discovery
Discovery(store, recursive, tech) ==
  GroupLoop(SampleFiles(store, recursive), tech, <<>>, <<>>)

\* line 220: sorted(sample_lists)[args.partition_id :: args.num_partitions]
Partition(lists, i, n) == PySlice(Sorted(DOMAIN lists), i, n)

\* line 225: sum(sample_sizes[sample]) < args.min_size
BelowMinSize(sizes, min) == SumSeq(sizes) < min

\* line 257: os.path.join(s3_output_prefix, f"{sample_name}.loom")
LoomKey(stem) == [stem |-> stem, ext |-> "loom"]

\* line 54: choices of --taxon, the keys of reference_genomes_indexes
reference_genomes_indexes == {"homo"}

Taxons == {"homo", "mus"}


\* ------------------------------------------------------------------ state
VARIABLES
  store,              \* the objects under s3_input_path
  recursive_listing,  \* whether s3u lists a prefix recursively or one level
  technology,         \* metadata: first data row, second column
  sample_name,        \* metadata: first data row, first column
  module_globals,     \* the names bound in the module's global scope
  args,               \* per shard: the Namespace parse_args returns
  pc,                 \* per shard: the position in main
  err,                \* per shard: the exception that ended the run
  sample_lists,       \* per shard: sample -> list of file keys
  sample_sizes,       \* per shard: sample -> list of sizes
  assigned,           \* per shard: the sliced sequence the loop iterates
  idx,                \* per shard: position in assigned of the current sample
  results_dir,        \* per shard: whether run_dir / "results" exists
  artifact,           \* per shard: the sample whose reads the local loom holds
  trace,              \* per shard: the steps taken, in order
  bucket              \* s3_output_path: output key -> what was uploaded

vars ==
  <<store, recursive_listing, technology, sample_name, module_globals, args,
    pc, err, sample_lists, sample_sizes, assigned, idx, results_dir,
    artifact, trace, bucket>>

world == <<store, recursive_listing, technology, sample_name, module_globals>>

\* the sample of the current iteration
Current(p) == assigned[p][idx[p]]

Event(kind, s) == [ev |-> kind, sample |-> s]

\* an uncaught exception ends the process
Raise(p, e) ==
  /\ pc' = [pc EXCEPT ![p] = "failed"]
  /\ err' = [err EXCEPT ![p] = e]

Goto(p, l) ==
  /\ pc' = [pc EXCEPT ![p] = l]
  /\ UNCHANGED err

\* the start of a shard process that is (or is not) launched
InitShard(active) ==
  /\ pc = [p \in Procs |-> IF p \in active THEN "parse" ELSE "idle"]
  /\ err = [p \in Procs |-> "none"]
  /\ sample_lists = [p \in Procs |-> <<>>]
  /\ sample_sizes = [p \in Procs |-> <<>>]
  /\ assigned = [p \in Procs |-> <<>>]
  /\ idx = [p \in Procs |-> 0]
  /\ results_dir = [p \in Procs |-> FALSE]
  /\ artifact = [p \in Procs |-> NoMatch]
  /\ trace = [p \in Procs |-> <<>>]
  /\ bucket = <<>>


\* ---------------------------------------------------------------- actions
Log(p, e) == trace' = [trace EXCEPT ![p] = Append(@, e)]

\* lines 111-125: parse_args; --taxon outside its choices exits the process
Parse(p) ==
  /\ pc[p] = "parse"
  /\ IF args[p].taxon \notin reference_genomes_indexes
     THEN Raise(p, "SystemExit")
     ELSE Goto(p, "metadata")
  /\ UNCHANGED <<world, args, sample_lists, sample_sizes, assigned, idx,
                 results_dir, artifact, trace, bucket>>

\* lines 127-145: download the metadata file and read its first data row
Metadata(p) ==
  /\ pc[p] = "metadata"
  /\ \E ok \in BOOLEAN :
       IF ok THEN Goto(p, "genome") /\ Log(p, Event("metadata", NoMatch))
       ELSE Raise(p, "ClientError") /\ UNCHANGED trace
  /\ UNCHANGED <<world, args, sample_lists, sample_sizes, assigned, idx,
                 results_dir, artifact, bucket>>

\* lines 147-157: the taxon check and the choice of genome_dir
Genome(p) ==
  /\ pc[p] = "genome"
  /\ IF args[p].taxon \notin reference_genomes_indexes
     THEN Raise(p, "ValueError") /\ UNCHANGED trace
     ELSE IF ~Has10x(technology) /\ ~HasSmartseq2(technology)
     THEN Raise(p, "UnboundLocalError") /\ UNCHANGED trace
     ELSE Goto(p, "reference") /\ Log(p, Event("taxon", NoMatch))
  /\ UNCHANGED <<world, args, sample_lists, sample_sizes, assigned, idx,
                 results_dir, artifact, bucket>>

\* a reference download whose failure does not stop the run
ReferenceIgnoresFailure(p) ==
  /\ pc[p] = "reference"
  /\ \E ok \in BOOLEAN :
       IF ok THEN Goto(p, "discover") /\ Log(p, Event("reference", NoMatch))
       ELSE Goto(p, "discover") /\ UNCHANGED trace
  /\ UNCHANGED <<world, args, sample_lists, sample_sizes, assigned, idx,
                 results_dir, artifact, bucket>>

\* lines 170-177: download the reference genome index
Reference(p) ==
  /\ pc[p] = "reference"
  /\ \E ok \in BOOLEAN :
       IF ok THEN Goto(p, "discover") /\ Log(p, Event("reference", NoMatch))
       ELSE Raise(p, "ClientError") /\ UNCHANGED trace
  /\ UNCHANGED <<world, args, sample_lists, sample_sizes, assigned, idx,
                 results_dir, artifact, bucket>>

\* lines 188-217: list the input prefix and group the files into samples
Discover(p) ==
  /\ pc[p] = "discover"
  /\ LET d == Discovery(store, recursive_listing, technology)
     IN IF d.error # "none"
        THEN Raise(p, d.error) /\ UNCHANGED <<sample_lists, sample_sizes>>
        ELSE /\ Goto(p, "partition")
             /\ sample_lists' = [sample_lists EXCEPT ![p] = d.lists]
             /\ sample_sizes' = [sample_sizes EXCEPT ![p] = d.sizes]
  /\ UNCHANGED <<world, args, assigned, idx, results_dir, artifact, trace,
                 bucket>>

\* line 220: the slice the for loop iterates; a step of 0 raises ValueError
Select(p) ==
  /\ pc[p] = "partition"
  /\ IF args[p].num_partitions = 0
     THEN Raise(p, "ValueError") /\ UNCHANGED <<assigned, idx>>
     ELSE /\ Goto(p, "loop")
          /\ assigned' = [assigned EXCEPT ![p] =
               Partition(sample_lists[p], args[p].partition_id,
                         args[p].num_partitions)]
          /\ idx' = [idx EXCEPT ![p] = 1]
  /\ UNCHANGED <<world, args, sample_lists, sample_sizes, results_dir,
                 artifact, trace, bucket>>

\* a loop that stops one sample short of the end of its sequence
LoopHeadStopsEarly(p) ==
  /\ pc[p] = "loop"
  /\ IF idx[p] >= Len(assigned[p])
     THEN Goto(p, "done") /\ UNCHANGED <<results_dir, trace>>
     ELSE IF results_dir[p]
     THEN Raise(p, "FileExistsError") /\ UNCHANGED <<results_dir, trace>>
     ELSE /\ Goto(p, "gate")
          /\ results_dir' = [results_dir EXCEPT ![p] = TRUE]
          /\ Log(p, Event("begin", Current(p)))
  /\ UNCHANGED <<world, args, sample_lists, sample_sizes, assigned, idx,
                 artifact, bucket>>

\* lines 220-223 and 266: the next sample, result_path.mkdir(parents=True);
\* after the last sample, "Job completed"
LoopHead(p) ==
  /\ pc[p] = "loop"
  /\ IF idx[p] > Len(assigned[p])
     THEN Goto(p, "done") /\ UNCHANGED <<results_dir, trace>>
     ELSE IF results_dir[p]
     THEN Raise(p, "FileExistsError") /\ UNCHANGED <<results_dir, trace>>
     ELSE /\ Goto(p, "gate")
          /\ results_dir' = [results_dir EXCEPT ![p] = TRUE]
          /\ Log(p, Event("begin", Current(p)))
  /\ UNCHANGED <<world, args, sample_lists, sample_sizes, assigned, idx,
                 artifact, bucket>>

\* lines 225-227: the size gate
Gate(p) ==
  /\ pc[p] = "gate"
  /\ IF "min_size" \notin DOMAIN args[p]
     THEN Raise(p, "AttributeError") /\ UNCHANGED <<idx, trace>>
     ELSE IF BelowMinSize(sample_sizes[p][Current(p)], args[p].min_size)
     THEN /\ Goto(p, "loop")
          /\ idx' = [idx EXCEPT ![p] = @ + 1]
          /\ Log(p, Event("skip", Current(p)))
     ELSE /\ Goto(p, "invoke")
          /\ Log(p, Event("pass", Current(p)))
          /\ UNCHANGED idx
  /\ UNCHANGED <<world, args, sample_lists, sample_sizes, assigned,
                 results_dir, artifact, bucket>>

\* the exit codes of the tool that are told apart
ExitCodes == {0, 1}

\* what a bound log_command returns as "failed": a non-zero exit code or a
\* failure marker in the captured output
Classify(exit, marker) == exit # 0 \/ marker

InvokeEvent(kind, s, exit, marker) ==
  [ev |-> kind, sample |-> s, exit |-> exit, marker |-> marker]

\* an invocation whose failure is not acted upon
InvokeIgnoresFailure(p) ==
  /\ pc[p] = "invoke"
  /\ IF "log_command" \notin DOMAIN module_globals
     THEN Raise(p, "NameError") /\ UNCHANGED <<artifact, trace>>
     ELSE \E exit \in ExitCodes, marker \in BOOLEAN :
            /\ Goto(p, "upload")
            /\ Log(p, InvokeEvent(IF Classify(exit, marker)
                                  THEN "invoke_failed" ELSE "invoke",
                                  Current(p), exit, marker))
            /\ artifact' = [artifact EXCEPT ![p] = Current(p)]
  /\ UNCHANGED <<world, args, sample_lists, sample_sizes, assigned, idx,
                 results_dir, bucket>>

\* lines 229-251: build the command, run it through log_command, raise
\* RuntimeError when it reports failure
Invoke(p) ==
  /\ pc[p] = "invoke"
  /\ IF "log_command" \notin DOMAIN module_globals
     THEN Raise(p, "NameError") /\ UNCHANGED <<artifact, trace>>
     ELSE \E exit \in ExitCodes, marker \in BOOLEAN :
            LET failed == Classify(exit, marker)
            IN IF failed
               THEN /\ Raise(p, "RuntimeError")
                    /\ Log(p, InvokeEvent("invoke_failed", Current(p),
                                          exit, marker))
                    /\ UNCHANGED artifact
               ELSE /\ Goto(p, "upload")
                    /\ Log(p, InvokeEvent("invoke", Current(p), exit, marker))
                    /\ artifact' = [artifact EXCEPT ![p] = Current(p)]
  /\ UNCHANGED <<world, args, sample_lists, sample_sizes, assigned, idx,
                 results_dir, bucket>>

\* an upload whose exception is swallowed
UploadSwallowsError(p) ==
  /\ pc[p] = "upload"
  /\ \E ok \in BOOLEAN :
       /\ Goto(p, "cleanup")
       /\ IF ok
          THEN /\ bucket' = (LoomKey(sample_name) :>
                               [content |-> artifact[p], by |-> p]) @@ bucket
               /\ Log(p, [ev |-> "upload", sample |-> Current(p),
                          key |-> LoomKey(sample_name)])
          ELSE /\ Log(p, Event("upload_failed", Current(p)))
               /\ UNCHANGED bucket
  /\ UNCHANGED <<world, args, sample_lists, sample_sizes, assigned, idx,
                 results_dir, artifact>>

\* lines 253-259: s3c.upload_file of the local loom file
Upload(p) ==
  /\ pc[p] = "upload"
  /\ \E ok \in BOOLEAN :
       IF ok
       THEN /\ Goto(p, "cleanup")
            /\ bucket' = (LoomKey(sample_name) :>
                            [content |-> artifact[p], by |-> p]) @@ bucket
            /\ Log(p, [ev |-> "upload", sample |-> Current(p),
                       key |-> LoomKey(sample_name)])
       ELSE /\ Raise(p, "S3UploadFailedError")
            /\ Log(p, Event("upload_failed", Current(p)))
            /\ UNCHANGED bucket
  /\ UNCHANGED <<world, args, sample_lists, sample_sizes, assigned, idx,
                 results_dir, artifact>>

\* lines 261-262: rm -rf dest_dir
Cleanup(p) ==
  /\ pc[p] = "cleanup"
  /\ IF "dest_dir" \notin DOMAIN module_globals
     THEN Raise(p, "NameError") /\ UNCHANGED <<results_dir, artifact, trace>>
     ELSE /\ Goto(p, "sleep")
          /\ Log(p, Event("cleanup", Current(p)))
          /\ IF module_globals.dest_dir = "results"
             THEN /\ results_dir' = [results_dir EXCEPT ![p] = FALSE]
                  /\ artifact' = [artifact EXCEPT ![p] = NoMatch]
             ELSE UNCHANGED <<results_dir, artifact>>
  /\ UNCHANGED <<world, args, sample_lists, sample_sizes, assigned, idx,
                 bucket>>

\* a pacing delay after which the loop takes the same sample again
SleepRepeats(p) ==
  /\ pc[p] = "sleep"
  /\ Goto(p, "loop")
  /\ Log(p, Event("sleep", Current(p)))
  /\ UNCHANGED <<world, args, sample_lists, sample_sizes, assigned, idx,
                 results_dir, artifact, bucket>>

\* line 264: time.sleep(30), then the next iteration
Sleep(p) ==
  /\ pc[p] = "sleep"
  /\ Goto(p, "loop")
  /\ idx' = [idx EXCEPT ![p] = @ + 1]
  /\ Log(p, Event("sleep", Current(p)))
  /\ UNCHANGED <<world, args, sample_lists, sample_sizes, assigned,
                 results_dir, artifact, bucket>>

Next ==
  \E p \in Procs :
    \/ Parse(p)
    \/ Metadata(p)
    \/ Genome(p)
    \/ Reference(p)
    \/ Discover(p)
    \/ Select(p)
    \/ LoopHead(p)
    \/ Gate(p)
    \/ Invoke(p)
    \/ Upload(p)
    \/ Cleanup(p)
    \/ Sleep(p)

\* --------------------------------------------------------- initial states
\* The source binds neither args.min_size (get_parser declares no such
\* option) nor the globals log_command and dest_dir; s3c is bound by the
\* __main__ block. The model also covers the environments in which those
\* names are bound, so that the statements behind the first unbound name
\* are examined as well.
ArgsChoices(ids, counts) ==
  {base @@ extra :
     base \in [taxon : Taxons, num_partitions : counts, partition_id : ids],
     extra \in {<<>>, [min_size |-> MaxSize]}}

\* dest_dir is looked up only after log_command has been called, so it is
\* left unbound wherever log_command is.
GlobalsChoices ==
  {[s3c |-> "client"] @@ more :
     more \in {<<>>, [log_command |-> "function"],
               [log_command |-> "function", dest_dir |-> "results"],
               [log_command |-> "function", dest_dir |-> "elsewhere"]}}

\* <s>_L1_R<r>.fastq.gz directly under the input prefix
FlatObject(s, r, z) ==
  [folder |-> 0, sample |-> s, lane |-> TRUE, read |-> r, fastq |-> TRUE,
   size |-> z]

\* Flat buckets. Sample names matter only through their order, so the
\* samples present are 1..k; each has its R1 file, the first may have R2.
FlatStores ==
  {{FlatObject(s, 1, f[s]) : s \in 1..k} \cup
     {FlatObject(1, 2, 1) : x \in {y \in {k} : y > 0 /\ paired}} :
     k \in 0..MaxNames, f \in [1..MaxNames -> 1..MaxSize],
     paired \in BOOLEAN}

\* the metadata's sample name: the first or the last sample prefix
MetadataNames == {2 * s : s \in {1, MaxNames}}

\* One shard over a flat bucket of lane-marked files. On such files the
\* smartseq2 pattern behaves as the 10x one but for the longer capture, so
\* that label is left to SpecLayouts.
Init ==
  /\ store \in FlatStores
  /\ recursive_listing = FALSE
  /\ technology \in Technologies \ {"smartseq2"}
  /\ sample_name \in MetadataNames
  /\ module_globals \in GlobalsChoices
  /\ \E a \in ArgsChoices(0..MaxParts, -1..MaxParts) :
       args = [p \in Procs |-> a]
  /\ InitShard({"p1"})

Spec == Init /\ [][Next]_vars

\* Two shards of one job: the same bucket, metadata and command line, the
\* shard count 2 and the shard indices 0 and 1.
ShardIndex == ("p1" :> 0) @@ ("p2" :> 1)

InitShards ==
  /\ store \in FlatStores
  /\ recursive_listing = FALSE
  /\ technology = "10x"
  /\ sample_name \in MetadataNames
  /\ module_globals \in GlobalsChoices
  /\ \E extra \in {<<>>, [min_size |-> MaxSize]} :
       args = [p \in Procs |->
                 [taxon |-> "homo", num_partitions |-> Cardinality(Procs),
                  partition_id |-> ShardIndex[p]] @@ extra]
  /\ InitShard(Procs)

SpecShards == InitShards /\ [][Next]_vars

\* Bucket layouts with sub-folders, non-fastq objects and names without a
\* lane marker; one shard that takes every sample, the names bound as the
\* source binds them. With those bindings the run ends in the size gate.
LayoutObjects ==
  {[folder |-> f, sample |-> s, lane |-> l, read |-> 1, fastq |-> q,
    size |-> Min(f + 1, MaxSize)] :
     f \in 0..MaxFolders, s \in {1, MaxNames}, l \in BOOLEAN, q \in BOOLEAN}

LayoutStores == {{}} \cup {{a, b, c} : a, b, c \in LayoutObjects}

InitLayouts ==
  /\ store \in LayoutStores
  /\ recursive_listing \in BOOLEAN
  /\ technology \in Technologies
  /\ sample_name \in MetadataNames
  /\ module_globals = [s3c |-> "client"]
  /\ args = [p \in Procs |->
               [taxon |-> "homo", num_partitions |-> 1, partition_id |-> 0]]
  /\ InitShard({"p1"})

NextLayouts ==
  \E p \in Procs :
    \/ Parse(p)
    \/ Metadata(p)
    \/ Genome(p)
    \/ Reference(p)
    \/ Discover(p)
    \/ Select(p)
    \/ LoopHead(p)
    \/ Gate(p)

SpecLayouts == InitLayouts /\ [][NextLayouts]_vars


\* ------------------------------------------------------- shared predicates
\* n >= 1 and 0 <= i < n
ValidPartition(p) ==
  /\ args[p].num_partitions >= 1
  /\ args[p].partition_id >= 0
  /\ args[p].partition_id < args[p].num_partitions

\* the slice of line 220 has been evaluated
Selected(p) == idx[p] >= 1

\* the names are bound as the source binds them: args has no min_size, the
\* module's globals hold neither log_command nor dest_dir
SourceBindings(p) ==
  /\ "min_size" \notin DOMAIN args[p]
  /\ DOMAIN module_globals = {"s3c"}

Last(s) == s[Len(s)]

EventsOf(p, kinds) == {k \in 1..Len(trace[p]) : trace[p][k].ev \in kinds}

\* --------------------------------------------------------------- claim C1
\* C1: for a valid shard (n >= 1, 0 <= i < n) the sequence the loop iterates
\* is exactly the sorted sample names at 0-based positions p with
\* p mod n = i, and every sorted position belongs to exactly one of the
\* shards 0..n-1.
C1_StridePartition ==
  \A p \in Procs :
    (Selected(p) /\ ValidPartition(p)) =>
      LET S == Sorted(DOMAIN sample_lists[p])
          n == args[p].num_partitions
          i == args[p].partition_id
      IN /\ assigned[p] =
              Sorted({S[q + 1] : q \in {x \in 0..(Len(S) - 1) : x % n = i}})
         /\ \A k \in 1..Len(S) :
              Cardinality({j \in 0..(n - 1) :
                 S[k] \in Range(Partition(sample_lists[p], j, n))}) = 1

C1_Witness ==
  \E p \in Procs :
    /\ Selected(p) /\ ValidPartition(p)
    /\ args[p].num_partitions >= 2
    /\ Len(assigned[p]) >= 2
    /\ Len(assigned[p]) < Cardinality(DOMAIN sample_lists[p])

\* --------------------------------------------------------------- claim C2
ListedFailures ==
  {"SystemExit", "ValueError", "ClientError", "RuntimeError",
   "S3UploadFailedError"}

\* C2: a run with a valid shard and a known technology, with the names bound
\* as the source binds them, ends in failure only through an unknown taxon
\* or a failed external operation (download, invocation, upload); otherwise
\* it goes on to "Job completed".
C2_AbortsOnlyOnListedFailure ==
  \A p \in Procs :
    (pc[p] = "failed" /\ ValidPartition(p) /\ technology = "10x"
       /\ SourceBindings(p))
      => err[p] \in ListedFailures

C7_InvalidPartitionRejected ==
  \A p \in Procs :
    (pc[p] # "idle" /\ ~ValidPartition(p)) => ~Selected(p)

\* --------------------------------------------------------------- claim C8
\* C8: every sample the loop begins is decided by the size gate: it is
\* skipped when the sum of its sizes is strictly below the configured
\* minimum and passed on to the invocation otherwise.
C8_GateDecidesByStrictMinimum ==
  \A p \in Procs : \A k \in EventsOf(p, {"begin"}) :
    (ValidPartition(p) /\ (k < Len(trace[p]) \/ pc[p] # "gate")) =>
      /\ "min_size" \in DOMAIN args[p]
      /\ k < Len(trace[p])
      /\ trace[p][k + 1].ev =
           (IF SumSeq(sample_sizes[p][trace[p][k].sample]) < args[p].min_size
            THEN "skip" ELSE "pass")

UploadedKeys(p) == {trace[p][k].key : k \in EventsOf(p, {"upload"})}

SubfolderSamples ==
  {Matched(technology, o) :
     o \in {x \in store : x.folder # 0 /\ EndsWithFastq(x)}} \ {NoMatch}

\* C10: when nothing lies directly under the input prefix, discovery returns
\* exactly the samples found in the sub-folders.
C10_FallbackFindsSubfolderSamples ==
  \A p \in Procs :
    (/\ pc[p] = "partition"
     /\ MatchedIsBound(technology)
     /\ {o \in store : o.folder = 0} = {})
      => DOMAIN sample_lists[p] = SubfolderSamples


\* -------------------------------------------------------------- claim C11
\* the candidate files: what lines 188-203 leave in sample_files
Candidates == Range(SampleFiles(store, recursive_listing))

InSample(p, nm, key) ==
  nm \in DOMAIN sample_lists[p] /\ key \in Range(sample_lists[p][nm])

\* C11: under technology 10x a candidate file with a lane marker is in the
\* sample named by its prefix and in no other sample, a candidate file
\* without a lane marker is in no sample, and grouping raises no error.
C11_TenXGrouping ==
  \A p \in Procs :
    technology = "10x" =>
      /\ err[p] # "UnboundLocalError"
      /\ pc[p] = "partition" =>
           \A o \in Candidates :
             \A nm \in DOMAIN sample_lists[p] \cup {2 * o.sample} :
               InSample(p, nm, KeyOf(o)) <=> (o.lane /\ nm = 2 * o.sample)

C11_Witness ==
  \E p \in Procs :
    /\ technology = "10x" /\ pc[p] = "partition"
    /\ \E o \in Candidates : ~o.lane
    /\ \E nm \in DOMAIN sample_lists[p] : Len(sample_lists[p][nm]) = 2


PositionOf(p, s) == CHOOSE i \in 1..Len(assigned[p]) : assigned[p][i] = s

SampleKinds ==
  {"begin", "skip", "pass", "invoke", "invoke_failed", "upload",
   "upload_failed", "cleanup", "sleep"}

\* the errors raised before the loop of line 220 is entered
InitErrors == {"SystemExit", "ClientError", "ValueError", "UnboundLocalError"}

\* C14: sample work happens only after the metadata download, the taxon
\* check and the reference download have succeeded, in that order; a run
\* that fails before the loop has processed no sample; the reference is
\* downloaded at most once and never during the loop.
C14_InitPrecedesSampleWork ==
  \A p \in Procs :
    /\ EventsOf(p, SampleKinds) # {} =>
         /\ Len(trace[p]) > 3
         /\ trace[p][1].ev = "metadata"
         /\ trace[p][2].ev = "taxon"
         /\ trace[p][3].ev = "reference"
         /\ \A k \in EventsOf(p, SampleKinds) : k > 3
    /\ Cardinality(EventsOf(p, {"reference"})) <= 1
    /\ err[p] \in InitErrors =>
         pc[p] = "failed" /\ EventsOf(p, SampleKinds) = {}
    /\ pc[p] \in {"discover", "partition", "loop", "gate", "invoke",
                  "upload", "cleanup", "sleep", "done"} =>
         Cardinality(EventsOf(p, {"reference"})) = 1

\* a sample has been gated, invoked, published and cleaned up
C14_Witness ==
  \E p \in Procs :
    /\ EventsOf(p, {"sleep"}) # {}
    /\ trace[p][3].ev = "reference"

\* -------------------------------------------------------------- claim C15
\* the pattern that goes with the branch lines 153-157 take for a label
InitPattern(tech, o) ==
  IF Has10x(tech) THEN sample_re_10x(o) ELSE sample_re_smartseq2(o)

\* C15: for every technology label the choice of the reference directory
\* accepts, discovery groups the candidate files by the pattern of that same
\* choice, and raises no error for want of a pattern.
C15_OnePatternPerRun ==
  \A p \in Procs :
    (Has10x(technology) \/ HasSmartseq2(technology)) =>
      /\ err[p] # "UnboundLocalError"
      /\ pc[p] = "partition" =>
           DOMAIN sample_lists[p] =
             {InitPattern(technology, o) : o \in Candidates} \ {NoMatch}

\* -------------------------------------------------------------- claim C16
\* C16: when the run has completed, every assigned sample has been skipped
\* by the gate or uploaded, no invocation and no upload has failed, and no
\* error has been raised; a run that has completed or failed stays there.
C16_DoneMeansAllHandled ==
  /\ [](\A p \in Procs :
          /\ pc[p] = "done" =>
               /\ err[p] = "none"
               /\ Selected(p)
               /\ \A i \in 1..Len(assigned[p]) :
                    \E k \in EventsOf(p, {"skip", "upload"}) :
                      trace[p][k].sample = assigned[p][i]
               /\ EventsOf(p, {"invoke_failed", "upload_failed"}) = {}
          /\ err[p] # "none" <=> pc[p] = "failed")
  /\ [][\A p \in Procs :
          pc[p] \in {"done", "failed"} => pc'[p] = pc[p]]_vars

\* a completed run that has uploaded one sample and skipped another
C16_Witness ==
  \E p \in Procs :
    /\ pc[p] = "done"
    /\ EventsOf(p, {"upload"}) # {}
    /\ EventsOf(p, {"skip"}) # {}

\* -------------------------------------------------------------- claim C17
\* the number of iterations begun up to event k
BegunUpTo(p, k) == Cardinality({j \in EventsOf(p, {"begin"}) : j <= k})

\* the events of one sample in the steps of the given kinds
StepsOf(p, s, kinds) == {k \in EventsOf(p, kinds) : trace[p][k].sample = s}

FlatLayout == store # {} /\ \A o \in store : o.folder = 0

\* every object lies in a sub-folder of the input prefix
SubfolderLayout == store # {} /\ \A o \in store : o.folder # 0

Occurrences(seq, x) == Cardinality({i \in 1..Len(seq) : seq[i] = x})

RECURSIVE SumSizes(_)
SumSizes(S) ==
  IF S = {} THEN 0
  ELSE LET o == CHOOSE x \in S : TRUE IN o.size + SumSizes(S \ {o})

\* the objects of the store that belong to the sample named nm
InputObjects(nm) ==
  {o \in store : EndsWithFastq(o) /\ Matched(technology, o) = nm}

=============================================================================
